---- MODULE Spec2Model ----
(***************************************************************************)
(* Cache replacement simulators of the repository: the LIRS engine         *)
(* (package lirs), the two LIRS-WSR engines that live one after the other  *)
(* in lirswsr/lirswsr.go, and the LRU engine (package lru).  One behaviour *)
(* of the model is one engine, built once and then fed Get calls.          *)
(***************************************************************************)
EXTENDS Integers, Sequences, FiniteSets, TLC

\* ---------------------------------------------------------------- bounds
MaxCacheSize == 3
NumAddrs == 3
MaxGets == 5

Addrs == 1..NumAddrs
Ops == {"R", "W"}
HirPercents == {0, 50, 100}
Engines == {"LIRS", "WSR1", "WSR2", "LRU"}
LirsFamily == {"LIRS", "WSR1", "WSR2"}
WsrFamily == {"WSR1", "WSR2"}

VARIABLES engine, cacheSize, hirPercent, LIRSize, HIRSize, hit, miss, writeCount,
          orderedStack, orderedList, LIR, HIR,
          available, totalaccess, pagefault, write, tlba, lrulist,
          calls, recency, last

vars == <<engine, cacheSize, hirPercent, LIRSize, HIRSize, hit, miss, writeCount,
          orderedStack, orderedList, LIR, HIR,
          available, totalaccess, pagefault, write, tlba, lrulist,
          calls, recency, last>>

\* ------------------------------------------------- ordered map (orderedmap)
\* An ordered map is a sequence of [key, value] entries, oldest first.
Keys(m) == {m[i].key : i \in 1..Len(m)}

OMHas(m, k) == k \in Keys(m)

OMIndex(m, k) == CHOOSE i \in 1..Len(m) : m[i].key = k

OMGet(m, k) == m[OMIndex(m, k)].value

OMRemoveAt(m, i) == [j \in 1..(Len(m) - 1) |-> IF j < i THEN m[j] ELSE m[j + 1]]

\* Set: overwrite in place when the key exists, append otherwise
OMSet(m, k, v) ==
    IF OMHas(m, k)
    THEN [m EXCEPT ![OMIndex(m, k)] = [key |-> k, value |-> v]]
    ELSE Append(m, [key |-> k, value |-> v])

\* MoveLast: no effect when the key is absent
OMMoveLast(m, k) ==
    IF OMHas(m, k)
    THEN Append(OMRemoveAt(m, OMIndex(m, k)), m[OMIndex(m, k)])
    ELSE m

OMDelete(m, k) == IF OMHas(m, k) THEN OMRemoveAt(m, OMIndex(m, k)) ELSE m

\* PopFirst: no effect on an empty map
OMPopFirst(m) == IF Len(m) = 0 THEN m ELSE Tail(m)

\* ------------------------------------------------------------ constructors
\* gives the LIR set whatever the HIR capacity leaves of the cache
LIRCapacityOf_complement(cs, hp) == cs - ((hp * cs) \div 100)
LIRCapacityOf(cs, hp) == ((100 - hp) * cs) \div 100
HIRCapacityOf(cs, hp) == (hp * cs) \div 100

\* what the last Get call did: its arguments, the branch it took, the error
\* value produced inside it and the demotion step (condition1/condition3)
NoDemotion == [ran |-> FALSE, name |-> "", removeLIR |-> FALSE, key |-> 0,
               DirtyPage |-> FALSE, ColdFlag |-> FALSE, Access |-> 0]
NoCall == [Addr |-> 0, Op |-> "", branch |-> "none", err |-> "", dem |-> NoDemotion,
           evicted |-> {}]

\* the engine object the methods work on
Obj == [hit |-> hit, miss |-> miss, writeCount |-> writeCount,
        orderedStack |-> orderedStack, orderedList |-> orderedList,
        LIR |-> LIR, HIR |-> HIR, LIRSize |-> LIRSize, HIRSize |-> HIRSize,
        branch |-> "none", err |-> "", dem |-> NoDemotion]

\* ======================================================== LIRS (package lirs)
LIRS_removeFromList(o, block) ==
    [o EXCEPT !.orderedList = OMDelete(@, block)]

\* makeLIR that forgets "delete(LIRSObject.HIR, block)"
LIRS_makeLIR_keepsHIR(o, block) ==
    LET o1 == [o EXCEPT !.LIR = @ \cup {block}]
    IN  LIRS_removeFromList(o1, block)

LIRS_makeLIR(o, block) ==
    LET o1 == [o EXCEPT !.LIR = @ \cup {block}]
        o2 == LIRS_removeFromList(o1, block)
    IN  [o2 EXCEPT !.HIR = @ \ {block}]

\* makeHIR that forgets "delete(LIRSObject.LIR, block)"
LIRS_makeHIR_keepsLIR(o, block) ==
    [o EXCEPT !.HIR = @ \cup {block}]

LIRS_makeHIR(o, block) ==
    [o EXCEPT !.HIR = @ \cup {block}, !.LIR = @ \ {block}]

LIRS_addToStack(o, block) ==
    IF OMHas(o.orderedStack, block)
    THEN [o EXCEPT !.orderedStack = OMMoveLast(@, block)]
    ELSE [o EXCEPT !.orderedStack = OMSet(@, block, 1)]

LIRS_addToList(o, block) ==
    LET o1 == IF Len(o.orderedList) = o.HIRSize
              THEN [o EXCEPT !.orderedList = OMPopFirst(@)]
              ELSE o
    IN  [o1 EXCEPT !.orderedList = OMSet(@, block, 1)]

\* pops entries off the bottom of S until the bottom is in the LIR set
RECURSIVE PruneStack(_, _)
PruneStack(s, lir) ==
    IF Len(s) = 0 THEN s
    ELSE IF s[1].key \in lir THEN s
    ELSE PruneStack(Tail(s), lir)

LIRS_stackPruning(o) ==
    [o EXCEPT !.orderedStack = PruneStack(@, o.LIR)]

\* condition1 that demotes the popped block whatever removeLIR says
LIRS_condition1_alwaysDemotes(o, removeLIR) ==
    IF Len(o.orderedStack) = 0
    THEN [o EXCEPT !.err = "orderedStack is empty"]
    ELSE LET key == o.orderedStack[1].key
             o1 == [o EXCEPT !.orderedStack = OMPopFirst(@),
                             !.dem = [NoDemotion EXCEPT !.ran = TRUE,
                                         !.name = "condition1",
                                         !.removeLIR = removeLIR, !.key = key]]
             a == LIRS_makeHIR(o1, key)
             b == [a EXCEPT !.orderedList = OMSet(@, key, 1)]
             o2 == [b EXCEPT !.orderedList = OMMoveLast(@, key)]
         IN  LIRS_stackPruning(o2)

LIRS_condition1(o, removeLIR) ==
    IF Len(o.orderedStack) = 0
    THEN [o EXCEPT !.err = "orderedStack is empty"]
    ELSE LET key == o.orderedStack[1].key
             o1 == [o EXCEPT !.orderedStack = OMPopFirst(@),
                             !.dem = [NoDemotion EXCEPT !.ran = TRUE,
                                         !.name = "condition1",
                                         !.removeLIR = removeLIR, !.key = key]]
             o2 == IF removeLIR
                   THEN LET a == LIRS_makeHIR(o1, key)
                            b == [a EXCEPT !.orderedList = OMSet(@, key, 1)]
                        IN  [b EXCEPT !.orderedList = OMMoveLast(@, key)]
                   ELSE o1
         IN  LIRS_stackPruning(o2)

\* handleLIRBlock that calls condition1(true) on a bottom hit
LIRS_handleLIRBlock_demotes(o, block) ==
    LET o1 == [o EXCEPT !.hit = @ + 1, !.branch = "LIR"]
    IN  IF Len(o1.orderedStack) = 0
        THEN [o1 EXCEPT !.err = "orderedStack is empty"]
        ELSE LET o2 == IF o1.orderedStack[1].key = block
                       THEN LIRS_condition1(o1, TRUE)
                       ELSE o1
             IN  LIRS_addToStack(o2, block)

\* handleLIRBlock that does not put the block back after a bottom hit
LIRS_handleLIRBlock_noReAdd(o, block) ==
    LET o1 == [o EXCEPT !.hit = @ + 1, !.branch = "LIR"]
    IN  IF Len(o1.orderedStack) = 0
        THEN [o1 EXCEPT !.err = "orderedStack is empty"]
        ELSE IF o1.orderedStack[1].key = block
             THEN LIRS_condition1(o1, FALSE)
             ELSE LIRS_addToStack(o1, block)

LIRS_handleLIRBlock(o, block) ==
    LET o1 == [o EXCEPT !.hit = @ + 1, !.branch = "LIR"]
    IN  IF Len(o1.orderedStack) = 0
        THEN [o1 EXCEPT !.err = "orderedStack is empty"]
        ELSE LET o2 == IF o1.orderedStack[1].key = block
                       THEN LIRS_condition1(o1, FALSE)
                       ELSE o1
             IN  LIRS_addToStack(o2, block)

\* handleHIRResidentBlock without its "hit += 1"
LIRS_handleHIRResidentBlock_noHit(o, block) ==
    LET o2 == IF OMHas(o.orderedStack, block)
              THEN LET a == LIRS_makeLIR([o EXCEPT !.branch = "HIRResidentInStack"], block)
                       b == LIRS_removeFromList(a, block)
                   IN  LIRS_condition1(b, TRUE)
              ELSE [o EXCEPT !.orderedList = OMMoveLast(@, block),
                             !.branch = "HIRResidentNotInStack"]
    IN  LIRS_addToStack(o2, block)

LIRS_handleHIRResidentBlock(o, block) ==
    LET o1 == [o EXCEPT !.hit = @ + 1]
        o2 == IF OMHas(o1.orderedStack, block)
              THEN LET a == LIRS_makeLIR([o1 EXCEPT !.branch = "HIRResidentInStack"], block)
                       b == LIRS_removeFromList(a, block)
                   IN  LIRS_condition1(b, TRUE)
              ELSE [o1 EXCEPT !.orderedList = OMMoveLast(@, block),
                              !.branch = "HIRResidentNotInStack"]
    IN  LIRS_addToStack(o2, block)

\* handleHIRNonResidentBlock that forgets makeHIR for a block not in S
LIRS_handleHIRNonResidentBlock_noMakeHIR(o, block) ==
    LET o1 == [o EXCEPT !.miss = @ + 1]
        o2 == LIRS_addToList(o1, block)
        o3 == IF OMHas(o2.orderedStack, block)
              THEN LET a == LIRS_makeLIR([o2 EXCEPT !.branch = "NonResidentInStack"], block)
                       b == LIRS_removeFromList(a, block)
                   IN  LIRS_condition1(b, TRUE)
              ELSE [o2 EXCEPT !.branch = "NonResidentNotInStack"]
    IN  LIRS_addToStack(o3, block)

LIRS_handleHIRNonResidentBlock(o, block) ==
    LET o1 == [o EXCEPT !.miss = @ + 1]
        o2 == LIRS_addToList(o1, block)
        o3 == IF OMHas(o2.orderedStack, block)
              THEN LET a == LIRS_makeLIR([o2 EXCEPT !.branch = "NonResidentInStack"], block)
                       b == LIRS_removeFromList(a, block)
                   IN  LIRS_condition1(b, TRUE)
              ELSE LIRS_makeHIR([o2 EXCEPT !.branch = "NonResidentNotInStack"], block)
    IN  LIRS_addToStack(o3, block)

\* Get whose cold-start test is "<=" instead of "<"
LIRS_Get_offByOne(o, block, op) ==
    LET o1 == IF op = "W" THEN [o EXCEPT !.writeCount = @ + 1] ELSE o
    IN  IF Cardinality(o1.LIR) <= o1.LIRSize
        THEN LET a == [o1 EXCEPT !.miss = @ + 1, !.branch = "ColdStartMiss"]
                 b == IF block \in a.LIR
                      THEN [a EXCEPT !.miss = @ - 1, !.hit = @ + 1,
                                     !.branch = "ColdStartHit"]
                      ELSE a
                 c == LIRS_addToStack(b, block)
             IN  LIRS_makeLIR(c, block)
        ELSE IF block \in o1.LIR THEN LIRS_handleLIRBlock(o1, block)
        ELSE IF OMHas(o1.orderedList, block) THEN LIRS_handleHIRResidentBlock(o1, block)
        ELSE LIRS_handleHIRNonResidentBlock(o1, block)

LIRS_Get_writeOnInsert(o, block, op) ==
    LET o1 == IF op = "W" /\ ~OMHas(o.orderedStack, block)
              THEN [o EXCEPT !.writeCount = @ + 1] ELSE o
    IN  IF Cardinality(o1.LIR) < o1.LIRSize
        THEN LET a == [o1 EXCEPT !.miss = @ + 1, !.branch = "ColdStartMiss"]
                 b == IF block \in a.LIR
                      THEN [a EXCEPT !.miss = @ - 1, !.hit = @ + 1,
                                     !.branch = "ColdStartHit"]
                      ELSE a
                 c == LIRS_addToStack(b, block)
             IN  LIRS_makeLIR(c, block)
        ELSE IF block \in o1.LIR THEN LIRS_handleLIRBlock(o1, block)
        ELSE IF OMHas(o1.orderedList, block) THEN LIRS_handleHIRResidentBlock(o1, block)
        ELSE LIRS_handleHIRNonResidentBlock(o1, block)

LIRS_Get(o, block, op) ==
    LET o1 == IF op = "W" THEN [o EXCEPT !.writeCount = @ + 1] ELSE o
    IN  IF Cardinality(o1.LIR) < o1.LIRSize
        THEN LET a == [o1 EXCEPT !.miss = @ + 1, !.branch = "ColdStartMiss"]
                 b == IF block \in a.LIR
                      THEN [a EXCEPT !.miss = @ - 1, !.hit = @ + 1,
                                     !.branch = "ColdStartHit"]
                      ELSE a
                 c == LIRS_addToStack(b, block)
             IN  LIRS_makeLIR(c, block)
        ELSE IF block \in o1.LIR THEN LIRS_handleLIRBlock(o1, block)
        ELSE IF OMHas(o1.orderedList, block) THEN LIRS_handleHIRResidentBlock(o1, block)
        ELSE LIRS_handleHIRNonResidentBlock(o1, block)

\* ============================================= LIRS-WSR (package lirswsr)
BlockInfo(address, operation, dirty, cold, access) ==
    [Address |-> address, Operation |-> operation, DirtyPage |-> dirty,
     ColdFlag |-> cold, Access |-> access]

\* &BlockInfo{ColdFlag: true, Access: 0}: the other fields take Go's zero values
ResetInfo == BlockInfo(0, "", FALSE, TRUE, 0)

DemotionOf(name, removeLIR, entry) ==
    [ran |-> TRUE, name |-> name, removeLIR |-> removeLIR, key |-> entry.key,
     DirtyPage |-> entry.value.DirtyPage, ColdFlag |-> entry.value.ColdFlag,
     Access |-> entry.value.Access]

\* ---------------------------------------- first variant (lines 1-330)
WSR1_addToList(o, block, op) ==
    LET o1 == IF Len(o.orderedList) = o.HIRSize
              THEN [o EXCEPT !.orderedList = OMPopFirst(@)]
              ELSE o
    IN  IF op = "W"
        THEN [o1 EXCEPT !.writeCount = @ + 1,
                        !.orderedList = OMSet(@, block, BlockInfo(block, op, TRUE, TRUE, 0))]
        ELSE [o1 EXCEPT !.orderedList = OMSet(@, block, BlockInfo(block, op, FALSE, TRUE, 0))]

WSR1_addToStack(o, block, op) ==
    IF OMHas(o.orderedStack, block)
    THEN LET i == OMIndex(o.orderedStack, block)
             o1 == [o EXCEPT !.orderedStack[i].value.Access = @ + 1]
         IN  [o1 EXCEPT !.orderedStack = OMMoveLast(@, block)]
    ELSE IF op = "W"
    THEN [o EXCEPT !.writeCount = @ + 1,
                   !.orderedStack = OMSet(@, block, BlockInfo(block, op, TRUE, TRUE, 0))]
    ELSE [o EXCEPT !.orderedStack = OMSet(@, block, BlockInfo(block, op, FALSE, TRUE, 0))]

WSR1_removeFromList(o, block) ==
    [o EXCEPT !.orderedList = OMDelete(@, block)]

WSR1_makeLIR(o, block) ==
    [o EXCEPT !.HIR = @ \ {block}, !.LIR = @ \cup {block}]

WSR1_makeHIR(o, block) ==
    [o EXCEPT !.LIR = @ \ {block}, !.HIR = @ \cup {block}]

WSR1_stackPruning(o) ==
    [o EXCEPT !.orderedStack = PruneStack(@, o.LIR)]

WSR1_isBlockCold(o, block) ==
    IF OMHas(o.orderedStack, block)
    THEN OMGet(o.orderedStack, block).Access < 2
    ELSE FALSE

WSR1_isBlockDirty(o, block) ==
    IF OMHas(o.orderedStack, block)
    THEN OMGet(o.orderedStack, block).DirtyPage
    ELSE FALSE

\* condition1 that reads the bottom block's metadata before popping it
WSR1_condition1_lookupBeforePop(o, removeLIR) ==
    IF Len(o.orderedStack) = 0
    THEN [o EXCEPT !.err = "orderedStack is empty"]
    ELSE LET block == o.orderedStack[1].key
             o1 == [o EXCEPT !.orderedStack = OMPopFirst(@),
                             !.dem = DemotionOf("condition1", removeLIR, o.orderedStack[1])]
             o2 == IF ~removeLIR THEN o1
                   ELSE IF WSR1_isBlockDirty(o, block) \/ WSR1_isBlockCold(o, block)
                   THEN LET a == [o1 EXCEPT !.hit = @ + 1]
                            b == WSR1_makeHIR(a, block)
                            c == [b EXCEPT !.orderedList = OMSet(@, block, 1)]
                        IN  [c EXCEPT !.orderedList = OMMoveLast(@, block)]
                   ELSE LET a == [o1 EXCEPT !.orderedStack = OMSet(@, block, ResetInfo)]
                        IN  [a EXCEPT !.orderedStack = OMMoveLast(@, block)]
         IN  WSR1_stackPruning(o2)

WSR1_condition1(o, removeLIR) ==
    IF Len(o.orderedStack) = 0
    THEN [o EXCEPT !.err = "orderedStack is empty"]
    ELSE LET block == o.orderedStack[1].key
             o1 == [o EXCEPT !.orderedStack = OMPopFirst(@),
                             !.dem = DemotionOf("condition1", removeLIR, o.orderedStack[1])]
             o2 == IF ~removeLIR THEN o1
                   ELSE IF WSR1_isBlockDirty(o1, block) \/ WSR1_isBlockCold(o1, block)
                   THEN LET a == [o1 EXCEPT !.hit = @ + 1]
                            b == WSR1_makeHIR(a, block)
                            c == [b EXCEPT !.orderedList = OMSet(@, block, 1)]
                        IN  [c EXCEPT !.orderedList = OMMoveLast(@, block)]
                   ELSE LET a == [o1 EXCEPT !.orderedStack = OMSet(@, block, ResetInfo)]
                        IN  [a EXCEPT !.orderedStack = OMMoveLast(@, block)]
         IN  WSR1_stackPruning(o2)

WSR1_condition3(o, removeLIR) ==
    IF Len(o.orderedStack) = 0
    THEN [o EXCEPT !.err = "orderedStack is empty"]
    ELSE LET block == o.orderedStack[1].key
             o1 == [o EXCEPT !.orderedStack = OMPopFirst(@),
                             !.dem = DemotionOf("condition3", removeLIR, o.orderedStack[1])]
             o2 == IF ~removeLIR THEN o1
                   ELSE IF WSR1_isBlockDirty(o1, block) \/ WSR1_isBlockCold(o1, block)
                   THEN LET b == WSR1_makeHIR(o1, block)
                            c == [b EXCEPT !.orderedList = OMSet(@, block, 1)]
                        IN  [c EXCEPT !.orderedList = OMMoveLast(@, block)]
                   ELSE LET a == [o1 EXCEPT !.orderedStack = OMSet(@, block, ResetInfo)]
                        IN  [a EXCEPT !.orderedStack = OMMoveLast(@, block)]
         IN  WSR1_stackPruning(o2)

WSR1_handleLIRBlock(o, block, op) ==
    LET o1 == [o EXCEPT !.hit = @ + 1, !.branch = "LIR"]
    IN  IF Len(o1.orderedStack) = 0
        THEN [o1 EXCEPT !.err = "orderedStack is empty"]
        ELSE LET o2 == IF o1.orderedStack[1].key = block
                       THEN WSR1_condition1(o1, FALSE)
                       ELSE o1
                 o3 == WSR1_addToStack(o2, block, op)
             IN  [o3 EXCEPT !.orderedStack = OMSet(@, block, ResetInfo)]

WSR1_handleHIRResidentBlock(o, block, op) ==
    LET o2 == IF OMHas(o.orderedStack, block)
              THEN LET a == WSR1_makeLIR([o EXCEPT !.branch = "HIRResidentInStack"], block)
                       b == WSR1_removeFromList(a, block)
                   IN  WSR1_condition1(b, TRUE)
              ELSE [o EXCEPT !.orderedList = OMMoveLast(@, block),
                             !.branch = "HIRResidentNotInStack"]
    IN  WSR1_addToStack(o2, block, op)

WSR1_handleHIRNonResidentBlock(o, block, op) ==
    LET o1 == [o EXCEPT !.miss = @ + 1]
        o2 == WSR1_addToList(o1, block, op)
        o3 == IF OMHas(o2.orderedStack, block)
              THEN LET a == WSR1_makeLIR([o2 EXCEPT !.branch = "NonResidentInStack"], block)
                       b == WSR1_removeFromList(a, block)
                   IN  WSR1_condition3(b, TRUE)
              ELSE WSR1_makeHIR([o2 EXCEPT !.branch = "NonResidentNotInStack"], block)
    IN  WSR1_addToStack(o3, block, op)

WSR1_Get(o, block, op) ==
    IF Cardinality(o.LIR) < o.LIRSize
    THEN LET a == [o EXCEPT !.miss = @ + 1, !.branch = "ColdStartMiss"]
             b == IF block \in a.LIR
                  THEN [a EXCEPT !.miss = @ - 1, !.hit = @ + 1,
                                 !.branch = "ColdStartHit"]
                  ELSE a
             c == WSR1_addToStack(b, block, op)
         IN  WSR1_makeLIR(c, block)
    ELSE IF block \in o.LIR THEN WSR1_handleLIRBlock(o, block, op)
    ELSE IF OMHas(o.orderedList, block) THEN WSR1_handleHIRResidentBlock(o, block, op)
    ELSE WSR1_handleHIRNonResidentBlock(o, block, op)

\* ---------------------------------------- second variant (lines 332-655)
WSR2_addToList(o, block, op) ==
    LET o1 == IF Len(o.orderedList) = o.HIRSize
              THEN [o EXCEPT !.orderedList = OMPopFirst(@)]
              ELSE o
    IN  IF op = "W"
        THEN [o1 EXCEPT !.writeCount = @ + 1,
                        !.orderedList = OMSet(@, block, BlockInfo(block, op, TRUE, TRUE, 0))]
        ELSE [o1 EXCEPT !.orderedList = OMSet(@, block, BlockInfo(block, op, FALSE, TRUE, 0))]

WSR2_addToStack(o, block, op) ==
    IF OMHas(o.orderedStack, block)
    THEN [o EXCEPT !.orderedStack = OMMoveLast(@, block)]
    ELSE IF op = "W"
    THEN [o EXCEPT !.writeCount = @ + 1,
                   !.orderedStack = OMSet(@, block, BlockInfo(block, op, TRUE, TRUE, 0))]
    ELSE [o EXCEPT !.orderedStack = OMSet(@, block, BlockInfo(block, op, FALSE, TRUE, 0))]

WSR2_removeFromList(o, block) ==
    [o EXCEPT !.orderedList = OMDelete(@, block)]

WSR2_makeLIR(o, block) ==
    [o EXCEPT !.HIR = @ \ {block}, !.LIR = @ \cup {block}]

WSR2_makeHIR(o, block) ==
    [o EXCEPT !.LIR = @ \ {block}, !.HIR = @ \cup {block}]

WSR2_stackPruning(o) ==
    [o EXCEPT !.orderedStack = PruneStack(@, o.LIR)]

WSR2_isColdFlag(o, block) ==
    IF OMHas(o.orderedStack, block)
    THEN OMGet(o.orderedStack, block).Access < 2
    ELSE FALSE

WSR2_isBlockColdDirty(o, block) ==
    IF OMHas(o.orderedStack, block)
    THEN OMGet(o.orderedStack, block).ColdFlag /\ OMGet(o.orderedStack, block).DirtyPage
    ELSE FALSE

WSR2_incrementAccess(o, block) ==
    IF OMHas(o.orderedStack, block)
    THEN [o EXCEPT !.orderedStack[OMIndex(o.orderedStack, block)].value.Access = @ + 1]
    ELSE o

\* condition1 that reads the bottom block's metadata before popping it
WSR2_condition1_lookupBeforePop(o, removeLIR) ==
    IF Len(o.orderedStack) = 0
    THEN [o EXCEPT !.err = "orderedStack is empty"]
    ELSE LET block == o.orderedStack[1].key
             o1 == [o EXCEPT !.orderedStack = OMPopFirst(@),
                             !.dem = DemotionOf("condition1", removeLIR, o.orderedStack[1])]
             o2 == IF ~removeLIR THEN o1
                   ELSE IF WSR2_isBlockColdDirty(o, block) \/ WSR2_isColdFlag(o, block)
                   THEN LET b == WSR2_makeHIR(o1, block)
                            c == [b EXCEPT !.orderedList = OMSet(@, block, 1)]
                        IN  [c EXCEPT !.orderedList = OMMoveLast(@, block)]
                   ELSE LET a == [o1 EXCEPT !.miss = @ + 1,
                                            !.orderedStack = OMSet(@, block, ResetInfo)]
                        IN  [a EXCEPT !.orderedStack = OMMoveLast(@, block)]
         IN  WSR2_stackPruning(o2)

WSR2_condition1(o, removeLIR) ==
    IF Len(o.orderedStack) = 0
    THEN [o EXCEPT !.err = "orderedStack is empty"]
    ELSE LET block == o.orderedStack[1].key
             o1 == [o EXCEPT !.orderedStack = OMPopFirst(@),
                             !.dem = DemotionOf("condition1", removeLIR, o.orderedStack[1])]
             o2 == IF ~removeLIR THEN o1
                   ELSE IF WSR2_isBlockColdDirty(o1, block) \/ WSR2_isColdFlag(o1, block)
                   THEN LET b == WSR2_makeHIR(o1, block)
                            c == [b EXCEPT !.orderedList = OMSet(@, block, 1)]
                        IN  [c EXCEPT !.orderedList = OMMoveLast(@, block)]
                   ELSE LET a == [o1 EXCEPT !.miss = @ + 1,
                                            !.orderedStack = OMSet(@, block, ResetInfo)]
                        IN  [a EXCEPT !.orderedStack = OMMoveLast(@, block)]
         IN  WSR2_stackPruning(o2)

WSR2_condition3(o, removeLIR) ==
    IF Len(o.orderedStack) = 0
    THEN [o EXCEPT !.err = "orderedStack is empty"]
    ELSE LET block == o.orderedStack[1].key
             o1 == [o EXCEPT !.orderedStack = OMPopFirst(@),
                             !.dem = DemotionOf("condition3", removeLIR, o.orderedStack[1])]
             o2 == IF ~removeLIR THEN o1
                   ELSE IF WSR2_isBlockColdDirty(o1, block) \/ WSR2_isColdFlag(o1, block)
                   THEN LET b == WSR2_makeHIR(o1, block)
                            c == [b EXCEPT !.orderedList = OMSet(@, block, 1)]
                        IN  [c EXCEPT !.orderedList = OMMoveLast(@, block)]
                   ELSE LET a == [o1 EXCEPT !.miss = @ + 1,
                                            !.orderedStack = OMSet(@, block, ResetInfo)]
                        IN  [a EXCEPT !.orderedStack = OMMoveLast(@, block)]
         IN  WSR2_stackPruning(o2)

WSR2_handleLIRBlock(o, block, op) ==
    LET o1 == [o EXCEPT !.hit = @ + 1, !.branch = "LIR"]
    IN  IF Len(o1.orderedStack) = 0
        THEN [o1 EXCEPT !.err = "orderedStack is empty"]
        ELSE LET o2 == IF o1.orderedStack[1].key = block
                       THEN WSR2_condition1(o1, FALSE)
                       ELSE o1
                 o3 == WSR2_addToStack(o2, block, op)
                 o4 == [o3 EXCEPT !.orderedStack = OMSet(@, block, ResetInfo)]
             IN  WSR2_incrementAccess(o4, block)

WSR2_handleHIRResidentBlock(o, block, op) ==
    LET o1 == [o EXCEPT !.hit = @ + 1]
        o2 == IF OMHas(o1.orderedStack, block)
              THEN LET a == WSR2_makeLIR([o1 EXCEPT !.branch = "HIRResidentInStack"], block)
                       b == WSR2_removeFromList(a, block)
                   IN  WSR2_condition1(b, TRUE)
              ELSE LET a == [o1 EXCEPT !.orderedList = OMMoveLast(@, block),
                                       !.branch = "HIRResidentNotInStack"]
                   IN  WSR2_condition1(a, TRUE)
        o3 == WSR2_addToStack(o2, block, op)
    IN  WSR2_incrementAccess(o3, block)

WSR2_handleHIRNonResidentBlock(o, block, op) ==
    LET o1 == [o EXCEPT !.miss = @ + 1]
        o2 == WSR2_addToList(o1, block, op)
        o3 == IF OMHas(o2.orderedStack, block)
              THEN LET a == WSR2_makeLIR([o2 EXCEPT !.branch = "NonResidentInStack"], block)
                       b == WSR2_removeFromList(a, block)
                   IN  WSR2_condition3(b, TRUE)
              ELSE WSR2_makeHIR([o2 EXCEPT !.branch = "NonResidentNotInStack"], block)
        o4 == WSR2_addToStack(o3, block, op)
        o5 == [o4 EXCEPT !.orderedStack = OMSet(@, block, BlockInfo(0, "", FALSE, TRUE, 0))]
    IN  WSR2_incrementAccess(o5, block)

WSR2_Get(o, block, op) ==
    IF Cardinality(o.LIR) < o.LIRSize
    THEN LET a == [o EXCEPT !.miss = @ + 1, !.branch = "ColdStartMiss"]
             b == IF block \in a.LIR
                  THEN [a EXCEPT !.miss = @ - 1, !.hit = @ + 1,
                                 !.branch = "ColdStartHit"]
                  ELSE a
             c == WSR2_addToStack(b, block, op)
         IN  WSR2_makeLIR(c, block)
    ELSE IF block \in o.LIR THEN WSR2_handleLIRBlock(o, block, op)
    ELSE IF OMHas(o.orderedList, block) THEN WSR2_handleHIRResidentBlock(o, block, op)
    ELSE WSR2_handleHIRNonResidentBlock(o, block, op)

\* ============================================================ LRU (package lru)
\* A node is [lba, lastaccess, op]; lrulist has its front at index 1; tlba is
\* the set of nodes in the tree, looked up by lba.
NodeLba(lba, lastaccess, op) == [lba |-> lba, lastaccess |-> lastaccess, op |-> op]

LruObj == [hit |-> hit, miss |-> miss, write |-> write, available |-> available,
           totalaccess |-> totalaccess, pagefault |-> pagefault,
           tlba |-> tlba, lrulist |-> lrulist, evicted |-> {}, branch |-> "none"]

TlbaHas(t, lba) == \E nd \in t : nd.lba = lba
TlbaGet(t, lba) == CHOOSE nd \in t : nd.lba = lba
\* a Delete that leaves the tree as it is
TlbaDelete_noop(t, lba) == t
TlbaDelete(t, lba) == {nd \in t : nd.lba # lba}

ListRemove(l, nd) == SelectSeq(l, LAMBDA x : x # nd)
ListPushFront(l, nd) == <<nd>> \o l
\* takes the front (most recently used) element instead of the back
ListBack_front(l) == l[1]
ListBack(l) == l[Len(l)]

\* put without the "lru.write++" of a miss
LRU_put_noWriteOnMiss(u, data) ==
    IF TlbaHas(u.tlba, data.lba)
    THEN LET dd == TlbaGet(u.tlba, data.lba)
             u1 == [u EXCEPT !.hit = @ + 1, !.branch = "hit"]
             u2 == IF data.op = "W" THEN [u1 EXCEPT !.write = @ + 1] ELSE u1
             u3 == [u2 EXCEPT !.lrulist = ListRemove(@, dd)]
         IN  [u3 EXCEPT !.lrulist = ListPushFront(@, dd)]
    ELSE LET u1 == [u EXCEPT !.miss = @ + 1]
         IN  IF u1.available > 0
             THEN [u1 EXCEPT !.available = @ - 1, !.branch = "missFree",
                             !.lrulist = ListPushFront(@, data),
                             !.tlba = @ \cup {data}]
             ELSE LET el == ListBack(u1.lrulist)
                      u2 == [u1 EXCEPT !.pagefault = @ + 1, !.branch = "missEvict",
                                       !.evicted = {el.lba},
                                       !.tlba = TlbaDelete(@, el.lba)]
                      u3 == [u2 EXCEPT !.lrulist = ListRemove(@, el)]
                  IN  [u3 EXCEPT !.lrulist = ListPushFront(@, data),
                                 !.tlba = @ \cup {data}]

LRU_put(u, data) ==
    IF TlbaHas(u.tlba, data.lba)
    THEN LET dd == TlbaGet(u.tlba, data.lba)
             u1 == [u EXCEPT !.hit = @ + 1, !.branch = "hit"]
             u2 == IF data.op = "W" THEN [u1 EXCEPT !.write = @ + 1] ELSE u1
             u3 == [u2 EXCEPT !.lrulist = ListRemove(@, dd)]
         IN  [u3 EXCEPT !.lrulist = ListPushFront(@, dd)]
    ELSE LET u1 == [u EXCEPT !.miss = @ + 1, !.write = @ + 1]
         IN  IF u1.available > 0
             THEN [u1 EXCEPT !.available = @ - 1, !.branch = "missFree",
                             !.lrulist = ListPushFront(@, data),
                             !.tlba = @ \cup {data}]
             ELSE LET el == ListBack(u1.lrulist)
                      u2 == [u1 EXCEPT !.pagefault = @ + 1, !.branch = "missEvict",
                                       !.evicted = {el.lba},
                                       !.tlba = TlbaDelete(@, el.lba)]
                      u3 == [u2 EXCEPT !.lrulist = ListRemove(@, el)]
                  IN  [u3 EXCEPT !.lrulist = ListPushFront(@, data),
                                 !.tlba = @ \cup {data}]

LRU_Get(u, addr, op) ==
    LET u1 == [u EXCEPT !.totalaccess = @ + 1]
    IN  LRU_put(u1, NodeLba(addr, u1.totalaccess, op))

\* ================================================================ the system
Touch(r, block) == Append(SelectSeq(r, LAMBDA x : x # block), block)

lirsVars == <<LIRSize, HIRSize, writeCount, orderedStack, orderedList, LIR, HIR>>
lruVars == <<available, totalaccess, pagefault, write, tlba, lrulist>>

Init ==
    /\ engine \in Engines
    /\ cacheSize \in 1..MaxCacheSize
    /\ \E hp \in HirPercents :
          IF engine = "LRU"
          THEN hirPercent = 0 /\ LIRSize = 0 /\ HIRSize = 0
          ELSE /\ hirPercent = hp
               /\ LIRSize = LIRCapacityOf(cacheSize, hp)
               /\ HIRSize = HIRCapacityOf(cacheSize, hp)
    /\ hit = 0 /\ miss = 0 /\ writeCount = 0
    /\ orderedStack = <<>> /\ orderedList = <<>>
    /\ LIR = {} /\ HIR = {}
    /\ available = (IF engine = "LRU" THEN cacheSize ELSE 0)
    /\ totalaccess = 0 /\ pagefault = 0 /\ write = 0
    /\ tlba = {} /\ lrulist = <<>>
    /\ calls = 0 /\ recency = <<>> /\ last = NoCall

\* the effect of one Get call of a LIRS-family engine that returned object r
Commit(r, block, op) ==
    /\ hit' = r.hit /\ miss' = r.miss /\ writeCount' = r.writeCount
    /\ orderedStack' = r.orderedStack /\ orderedList' = r.orderedList
    /\ LIR' = r.LIR /\ HIR' = r.HIR
    /\ calls' = calls + 1
    /\ recency' = Touch(recency, block)
    /\ last' = [Addr |-> block, Op |-> op, branch |-> r.branch, err |-> r.err,
                dem |-> r.dem, evicted |-> {}]
    /\ UNCHANGED <<engine, cacheSize, hirPercent, LIRSize, HIRSize>>
    /\ UNCHANGED lruVars

GetLIRS ==
    /\ engine = "LIRS" /\ calls < MaxGets
    /\ \E block \in Addrs, op \in Ops : Commit(LIRS_Get(Obj, block, op), block, op)

GetWSR1 ==
    /\ engine = "WSR1" /\ calls < MaxGets
    /\ \E block \in Addrs, op \in Ops : Commit(WSR1_Get(Obj, block, op), block, op)

GetWSR2 ==
    /\ engine = "WSR2" /\ calls < MaxGets
    /\ \E block \in Addrs, op \in Ops : Commit(WSR2_Get(Obj, block, op), block, op)

GetLRU ==
    /\ engine = "LRU" /\ calls < MaxGets
    /\ \E addr \in Addrs, op \in Ops :
          LET r == LRU_Get(LruObj, addr, op)
          IN  /\ hit' = r.hit /\ miss' = r.miss /\ write' = r.write
              /\ available' = r.available /\ totalaccess' = r.totalaccess
              /\ pagefault' = r.pagefault
              /\ tlba' = r.tlba /\ lrulist' = r.lrulist
              /\ calls' = calls + 1
              /\ recency' = Touch(recency, addr)
              /\ last' = [Addr |-> addr, Op |-> op, branch |-> r.branch, err |-> "",
                          dem |-> NoDemotion, evicted |-> r.evicted]
              /\ UNCHANGED <<engine, cacheSize, hirPercent>>
              /\ UNCHANGED lirsVars

Next == GetLIRS \/ GetWSR1 \/ GetWSR2 \/ GetLRU

Spec == Init /\ [][Next]_vars

\* ------------------------------------------------ construction on its own
\* NewLIRS and NewLIRSWSR applied to every cacheSize in 1..MaxCapCacheSize and
\* every hirPercent in CapPercents; the operands of the two divisions are not
\* negative, so Go's truncating division is \div.
MaxCapCacheSize == 12
CapPercents == (0 - 1)..101

InitCap ==
    /\ engine = "unbuilt"
    /\ cacheSize = 0 /\ hirPercent = 0 /\ LIRSize = 0 /\ HIRSize = 0
    /\ hit = 0 /\ miss = 0 /\ writeCount = 0
    /\ orderedStack = <<>> /\ orderedList = <<>>
    /\ LIR = {} /\ HIR = {}
    /\ available = 0
    /\ totalaccess = 0 /\ pagefault = 0 /\ write = 0
    /\ tlba = {} /\ lrulist = <<>>
    /\ calls = 0 /\ recency = <<>> /\ last = NoCall

\* the constructor called with (cs, hp) for the engine type built
Construct(built, cs, hp) ==
    /\ cacheSize' = cs /\ hirPercent' = hp
    /\ IF hp > 100 \/ hp < 0
       THEN engine' = "fatal" /\ UNCHANGED <<LIRSize, HIRSize>>
       ELSE /\ engine' = built
            /\ LIRSize' = LIRCapacityOf(cs, hp)
            /\ HIRSize' = HIRCapacityOf(cs, hp)
    /\ UNCHANGED <<hit, miss, writeCount, orderedStack, orderedList, LIR, HIR>>
    /\ UNCHANGED lruVars
    /\ UNCHANGED <<calls, recency, last>>

NewLIRS ==
    /\ engine = "unbuilt"
    /\ \E cs \in 1..MaxCapCacheSize, hp \in CapPercents : Construct("LIRS", cs, hp)

NewLIRSWSR ==
    /\ engine = "unbuilt"
    /\ \E built \in WsrFamily, cs \in 1..MaxCapCacheSize, hp \in CapPercents :
          Construct(built, cs, hp)

NextCap == NewLIRS \/ NewLIRSWSR

SpecCap == InitCap /\ [][NextCap]_vars

\* ------------------------------------------- the two LIRS-WSR engines alone
InitWsr == Init /\ engine \in WsrFamily

NextWsr == GetWSR1 \/ GetWSR2

SpecWsr == InitWsr /\ [][NextWsr]_vars

\* ================================================================ properties
Range(f) == {f[i] : i \in 1..Len(f)}
InLirsFamily == engine \in LirsFamily
InWsrFamily == engine \in WsrFamily

\* C1: in LIRS and both LIRS-WSR variants the LIR set holds at most
\* LIRCapacity addresses after every Get call.
C1_LIRWithinCapacity ==
    InLirsFamily => Cardinality(LIR) <= LIRSize

\* C2: in LIRS and both LIRS-WSR variants, after every Get call stack S is
\* empty or its oldest entry is a member of the LIR set.
C2_StackBottomIsLIR ==
    InLirsFamily => (Len(orderedStack) = 0 \/ orderedStack[1].key \in LIR)

\* C3: in LIRS and both LIRS-WSR variants list Q has at most HIRCapacity
\* entries after every Get call, also when HIRCapacity is 0.
C3_ListWithinCapacity ==
    InLirsFamily => Len(orderedList) <= HIRSize

\* C4: in LIRS and both LIRS-WSR variants no address is in both the LIR set
\* and the HIR set.
C4_LIRHIRDisjoint ==
    InLirsFamily => LIR \cap HIR = {}

\* a promotion that demoted the bottom block of S has just happened in LIRS
C4_Witness ==
    /\ engine = "LIRS"
    /\ last.branch = "HIRResidentInStack"
    /\ last.dem.ran /\ last.dem.removeLIR
    /\ last.Addr \in LIR /\ last.dem.key \in HIR

\* C5: in LRU the recency list and the address index hold the same addresses,
\* each once, and at most cacheSize of them.
Resident == {nd.lba : nd \in tlba}

C5_LRUListMatchesIndex ==
    engine = "LRU" =>
        /\ Range(lrulist) = tlba
        /\ \A i, j \in 1..Len(lrulist) : lrulist[i].lba = lrulist[j].lba => i = j
        /\ Cardinality(Resident) = Cardinality(tlba)
        /\ Len(lrulist) <= cacheSize

\* a miss on a full LRU cache of two or more blocks has just evicted a block
C5_Witness ==
    /\ engine = "LRU" /\ cacheSize >= 2
    /\ last.branch = "missEvict"
    /\ Len(lrulist) = cacheSize

\* C6: in LRU a miss on a full cache evicts exactly the resident address whose
\* most recent access is the oldest and keeps every other resident address; a
\* hit evicts nothing.  With cacheSize 2 the accesses 1,2,3 evict 1.
LruVictim ==
    recency[CHOOSE i \in 1..Len(recency) :
                /\ recency[i] \in Resident
                /\ \A j \in 1..(i - 1) : recency[j] \notin Resident]

C6_Step ==
    engine = "LRU" =>
        /\ (last'.Addr \notin Resident /\ Cardinality(Resident) = cacheSize)
              => /\ Resident' = (Resident \ {LruVictim}) \cup {last'.Addr}
                 /\ last'.evicted = {LruVictim}
        /\ (last'.Addr \notin Resident /\ Cardinality(Resident) < cacheSize)
              => Resident' = Resident \cup {last'.Addr}
        /\ last'.Addr \in Resident
              => Resident' = Resident /\ last'.evicted = {}
        /\ (cacheSize = 2 /\ calls' = 3 /\ recency' = <<1, 2, 3>>)
              => Resident' = {2, 3}

C6_LRUEvictsLeastRecent == [][C6_Step]_vars

\* the accesses 1,2,1,3 (or 2,1,1,3) on a cache of size 2 have evicted 2
C6_Witness ==
    /\ engine = "LRU" /\ cacheSize = 2
    /\ calls = 4 /\ hit = 1 /\ recency = <<2, 1, 3>>
    /\ last.evicted = {2} /\ Resident = {1, 3}

\* C7: in LIRS and LRU every Get call raises exactly one of hit and miss, by
\* exactly 1, and hit + miss is the number of Get calls (in LRU also
\* totalaccess).
ExactlyOneCounted ==
    \/ hit' = hit + 1 /\ miss' = miss
    \/ hit' = hit /\ miss' = miss + 1

C7_Step ==
    engine \in {"LIRS", "LRU"} =>
        /\ ExactlyOneCounted
        /\ hit + miss = calls
        /\ hit' + miss' = calls'
        /\ engine = "LRU" => hit' + miss' = totalaccess'

C7_HitPlusMissCountsGets == [][C7_Step]_vars

\* LIRS has counted at least two misses and two hits, the last of them a hit
\* on a HIR-resident block
C7_Witness ==
    /\ engine = "LIRS"
    /\ last.branch \in {"HIRResidentInStack", "HIRResidentNotInStack"}
    /\ hit >= 2 /\ miss >= 2

\* C8: in both LIRS-WSR variants every Get call raises exactly one of hit and
\* miss, by exactly 1, and hit + miss is the number of Get calls.
C8_Step ==
    InWsrFamily =>
        /\ ExactlyOneCounted
        /\ hit' + miss' = calls'

C8_WSRHitPlusMissCountsGets == [][C8_Step]_vars

\* C9: with LIRCapacity = k >= 1, from a fresh engine: the first access to one
\* of the first k distinct addresses is a miss that puts the address into the
\* LIR set and S while Q and the HIR set stay empty; a repeat access in this
\* phase is a hit; the first access to a (k+1)-th distinct address is a miss
\* that puts it into Q and the HIR set and not into the LIR set.
Seen == Range(recency)

C9_Step ==
    (InLirsFamily /\ LIRSize >= 1) =>
        /\ (Cardinality(Seen) < LIRSize /\ last'.Addr \notin Seen)
              => /\ miss' = miss + 1 /\ hit' = hit
                 /\ last'.Addr \in LIR'
                 /\ OMHas(orderedStack', last'.Addr)
                 /\ orderedList' = <<>> /\ HIR' = {}
        /\ (Cardinality(Seen) < LIRSize /\ last'.Addr \in Seen)
              => /\ hit' = hit + 1 /\ miss' = miss
                 /\ LIR' = LIR
                 /\ orderedList' = <<>> /\ HIR' = {}
        /\ (Cardinality(Seen) = LIRSize /\ last'.Addr \notin Seen)
              => /\ miss' = miss + 1 /\ hit' = hit
                 /\ OMHas(orderedList', last'.Addr)
                 /\ last'.Addr \in HIR'
                 /\ last'.Addr \notin LIR'
                 /\ LIR' = LIR

C9_ColdStart == [][C9_Step]_vars

\* two addresses filled the LIR set, one of them was accessed again, and a
\* third address has just gone through steady-state classification
C9_Witness ==
    /\ InWsrFamily /\ LIRSize = 2
    /\ Cardinality(Seen) = 3
    /\ hit >= 1 /\ miss = 3
    /\ last.branch = "NonResidentNotInStack"
    /\ last.Addr \in HIR

\* C10: in both LIRS-WSR variants, when condition1 or condition3 runs with
\* removeLIR = true and the bottom block of S is cold (accessCount < 2) or
\* cold-dirty, the block leaves the LIR set, enters the HIR set and is put at
\* the newest end of Q; only a hot dirty bottom block stays in the LIR set.
DemotedCheap ==
    \/ last.dem.Access < 2
    \/ last.dem.ColdFlag /\ last.dem.DirtyPage

C10_ColdBottomIsDemoted ==
    (InWsrFamily /\ last.dem.ran /\ last.dem.removeLIR) =>
        /\ DemotedCheap =>
              /\ last.dem.key \notin LIR
              /\ last.dem.key \in HIR
              /\ Len(orderedList) > 0
              /\ orderedList[Len(orderedList)].key = last.dem.key
        /\ (last.dem.key \in LIR) => (last.dem.Access >= 2 /\ last.dem.DirtyPage)

\* C11: in both LIRS-WSR variants an entry of S that has dirty = true keeps
\* dirty = true for as long as the block stays in S.
DirtyIn(s, a) == OMHas(s, a) /\ OMGet(s, a).DirtyPage

C11_Step ==
    InWsrFamily =>
        \A a \in Addrs :
            (DirtyIn(orderedStack, a) /\ OMHas(orderedStack', a))
                => OMGet(orderedStack', a).DirtyPage

C11_DirtyStaysDirty == [][C11_Step]_vars

\* C12 (as stated): in LIRS a Get call raises writeCount by 1 exactly when its
\* operation is "W" and the address is absent from S before the call, and
\* leaves it unchanged otherwise.
C12_Step ==
    engine = "LIRS" =>
        writeCount' = writeCount +
            (IF last'.Op = "W" /\ ~OMHas(orderedStack, last'.Addr) THEN 1 ELSE 0)

C12_LIRSWriteOncePerInsertion == [][C12_Step]_vars

\* C12 (amended): in LIRS a Get call raises writeCount by 1 exactly when its
\* operation is "W", whether or not the address already has an entry in S,
\* and leaves it unchanged for any other operation.
C12_AmendedStep ==
    engine = "LIRS" =>
        writeCount' = writeCount + (IF last'.Op = "W" THEN 1 ELSE 0)

C12_LIRSWriteEveryW == [][C12_AmendedStep]_vars

\* a "W" Get on a LIR block that already had its entry in S has been counted:
\* the address was accessed before (so the hit is a repeat touch) and
\* writeCount is at least 1
C12_Witness ==
    /\ engine = "LIRS"
    /\ last.Op = "W"
    /\ last.branch \in {"LIR", "ColdStartHit"}
    /\ writeCount >= 1
    /\ hit >= 1

\* C13: in both LIRS-WSR variants one Get call raises writeCount by at most 1,
\* and by 0 when its operation is not "W".
C13_Step ==
    InWsrFamily =>
        /\ writeCount' - writeCount \in {0, 1}
        /\ last'.Op # "W" => writeCount' = writeCount

C13_WSRWriteAtMostOnePerGet == [][C13_Step]_vars

\* C14: in LIRS and both LIRS-WSR variants every address of the LIR set has an
\* entry in stack S after every Get call.
C14_LIRInStack ==
    InLirsFamily => LIR \subseteq Keys(orderedStack)

\* a bottom hit on a LIR block popped it off S and put it back, and a
\* promotion popped the bottom block of S
C14_Witness ==
    /\ InLirsFamily
    /\ last.dem.ran /\ last.dem.removeLIR
    /\ Cardinality(LIR) >= 1 /\ hit >= 2
    /\ Len(orderedStack) >= 2

\* C15: in LIRS and both LIRS-WSR variants |LIR set| + |HIR set| <= cacheSize
\* after every Get call.
C15_ResidentWithinCacheSize ==
    InLirsFamily => Cardinality(LIR) + Cardinality(HIR) <= cacheSize

\* C16: in LIRS and both LIRS-WSR variants a Get on an address that is already
\* in the LIR set leaves the LIR set, the HIR set and Q unchanged.
C16_Step ==
    (InLirsFamily /\ last'.Addr \in LIR) =>
        /\ LIR' = LIR
        /\ HIR' = HIR
        /\ orderedList' = orderedList
        /\ last'.branch \in {"LIR", "ColdStartHit"}

C16_LIRHitKeepsClasses == [][C16_Step]_vars

\* a steady-state hit on the LIR block at the bottom of S, with Q not empty
C16_Witness ==
    /\ InLirsFamily
    /\ last.branch = "LIR"
    /\ last.dem.ran /\ ~last.dem.removeLIR /\ last.dem.key = last.Addr
    /\ Len(orderedList) >= 1 /\ HIR # {}

\* C17: in LIRS and both LIRS-WSR variants no sequence of Get calls produces
\* the "orderedStack is empty" error, whatever the capacities.
C17_StackNeverEmptyError ==
    InLirsFamily => last.err = ""

\* the second variant popped S for a HIR-resident block that was not in S
C17_Witness ==
    /\ engine = "WSR2"
    /\ last.branch = "HIRResidentNotInStack"
    /\ last.dem.ran /\ last.dem.removeLIR
    /\ last.err = ""

\* C19: in LRU a Get call raises write by exactly 1 when it misses and when it
\* hits with operation "W", and leaves it unchanged on any other hit; hence
\* write lies between miss and miss + hit.
C19_Step ==
    engine = "LRU" =>
        /\ last'.Addr \notin Resident => write' = write + 1
        /\ (last'.Addr \in Resident /\ last'.Op = "W") => write' = write + 1
        /\ (last'.Addr \in Resident /\ last'.Op # "W") => write' = write
        /\ write' - miss' \in 0..hit'

C19_LRUWriteCount == [][C19_Step]_vars

\* LRU has counted misses, a hit with "W" and a hit with "R"
C19_Witness ==
    /\ engine = "LRU"
    /\ last.branch = "hit" /\ last.Op = "W"
    /\ hit >= 2 /\ write = miss + 1

\* C20: in each LIRS-WSR variant condition1(true) and condition3(true) produce
\* the same S, Q, LIR set, HIR set, block metadata and counters from the same
\* engine state.  The states compared are the ones the engine is in when a
\* handler calls condition1 or condition3, and the state between two calls.
SameOutcome(x, y) == [x EXCEPT !.dem.name = ""] = [y EXCEPT !.dem.name = ""]

Promotable == {b \in Keys(orderedStack) : b \notin LIR}

WSR1_CallStates ==
    {Obj}
    \cup {WSR1_removeFromList(WSR1_makeLIR(Obj, b), b) : b \in Promotable}
    \cup {WSR1_removeFromList(WSR1_makeLIR(WSR1_addToList(Obj, b, op), b), b) :
              b \in Promotable, op \in Ops}

WSR2_CallStates ==
    {Obj}
    \cup {WSR2_removeFromList(WSR2_makeLIR(Obj, b), b) : b \in Promotable}
    \cup {WSR2_removeFromList(WSR2_makeLIR(WSR2_addToList(Obj, b, op), b), b) :
              b \in Promotable, op \in Ops}
    \cup {[Obj EXCEPT !.orderedList = OMMoveLast(@, b)] : b \in Keys(orderedList)}

C18_CapacitiesSumToCacheSize ==
    InLirsFamily =>
        /\ LIRSize + HIRSize = cacheSize
        /\ LIRSize = ((100 - hirPercent) * cacheSize) \div 100
        /\ HIRSize = (hirPercent * cacheSize) \div 100

\* C18 (amended): the two capacities are the truncated quotients, and their
\* sum is cacheSize when hirPercent * cacheSize is a multiple of 100 and
\* cacheSize - 1 otherwise.
C18_CapacitiesSumWithinOne ==
    InLirsFamily =>
        /\ LIRSize = ((100 - hirPercent) * cacheSize) \div 100
        /\ HIRSize = (hirPercent * cacheSize) \div 100
        /\ LIRSize + HIRSize =
              (IF (hirPercent * cacheSize) % 100 = 0 THEN cacheSize ELSE cacheSize - 1)

\* an engine built with cacheSize 3 and hirPercent 50 has capacities 1 and 1
C18_Witness ==
    /\ InLirsFamily
    /\ cacheSize = 3 /\ hirPercent = 50
    /\ LIRSize = 1 /\ HIRSize = 1

\* C21: in LIRS and both LIRS-WSR variants every address held in list Q is a
\* member of the HIR set and not a member of the LIR set after every Get call.
C21_ListHoldsOnlyHIR ==
    InLirsFamily =>
        /\ Keys(orderedList) \subseteq HIR
        /\ Keys(orderedList) \cap LIR = {}

\* condition1(true) of LIRS has just put the block it popped from S into Q,
\* next to a LIR set that is not empty
C21_Witness ==
    /\ engine = "LIRS"
    /\ last.dem.ran /\ last.dem.removeLIR
    /\ OMHas(orderedList, last.dem.key)
    /\ last.dem.key \in HIR
    /\ LIR # {}

\* C22: in LIRS, whenever a Get call runs condition1 with removeLIR = true,
\* the block popped from the bottom of S was in the LIR set before the call
\* and is not the address of the call, and the LIR set keeps its size.
C22_Step ==
    (engine = "LIRS" /\ last'.dem.ran /\ last'.dem.removeLIR) =>
        /\ last'.dem.key \in LIR
        /\ last'.dem.key # last'.Addr
        /\ Cardinality(LIR') = Cardinality(LIR)

C22_PromotionDisplacesLIR == [][C22_Step]_vars

\* C23: in LIRS and both LIRS-WSR variants a Get on an address that is in Q
\* but not in S leaves the LIR set, the HIR set, the addresses held in Q and
\* every other entry of S unchanged; the address becomes the newest entry of
\* Q and the newest entry of S.
C23_Step ==
    (InLirsFamily /\ OMHas(orderedList, last'.Addr)
                  /\ ~OMHas(orderedStack, last'.Addr)) =>
        /\ LIR' = LIR
        /\ HIR' = HIR
        /\ orderedList' = OMMoveLast(orderedList, last'.Addr)
        /\ Len(orderedStack') = Len(orderedStack) + 1
        /\ SubSeq(orderedStack', 1, Len(orderedStack)) = orderedStack
        /\ orderedStack'[Len(orderedStack')].key = last'.Addr

C23_ListHitNotInStack == [][C23_Step]_vars

\* C24: in both LIRS-WSR variants no address ever leaves the LIR set: the LIR
\* set after a Get call is a superset of the LIR set before it.
C24_Step == InWsrFamily => LIR \subseteq LIR'

C25_Step ==
    engine = "LIRS" =>
        /\ Cardinality(LIR') >= Cardinality(LIR)
        /\ Cardinality(LIR) >= LIRSize
              => last'.branch \notin {"ColdStartMiss", "ColdStartHit"}

C25_LIRSizeNeverDecreases == [][C25_Step]_vars

\* a promotion has run condition1(true) with the LIR set at LIRCapacity >= 1:
\* one block came in, one went out, and the call was not a cold-start one
C25_Witness ==
    /\ engine = "LIRS"
    /\ LIRSize >= 1
    /\ Cardinality(LIR) = LIRSize
    /\ last.dem.ran /\ last.dem.removeLIR
    /\ last.dem.key \in HIR
    /\ last.branch \in {"HIRResidentInStack", "NonResidentInStack"}

====
